---- MODULE Spec2Model ----
(***************************************************************************)
(* Catch game: the Sketch orchestrator (scene list, active scene, p5       *)
(* handler dispatch), the Menu and Game scenes, the player and the         *)
(* collectibles.                                                           *)
(*                                                                         *)
(* Numbers.  The program computes with JavaScript doubles.  Here every     *)
(* length, velocity, acceleration and modifier r is the integer r * Scale  *)
(* (fixed point with Scale steps per unit); the frame time dt is a whole   *)
(* number of ticks.  Sums and dt * v are exact; the one product that       *)
(* leaves the grid, v * (1 - dt * d), is rounded toward zero.  The         *)
(* physical constants of Game.setup are scaled to this grid; as in the     *)
(* source, accelerations and speed limits exceed the deceleration          *)
(* modifiers, which are positive.                                          *)
(***************************************************************************)
EXTENDS Integers, Sequences, FiniteSets, TLC

(***************************************************************************)
(* Bounds of the exploration.                                              *)
(***************************************************************************)
\* Fixed-point steps per unit.
Scale == 8
\* Frames explored: p.frameCount stays at or below MaxFrames.
MaxFrames == 3
\* Ceiling of the score, scaled down from 999999.
ScoreCeiling == 1
\* Largest index the public activateScene is called with (smallest is -1).
MaxIndex == 2
\* Rejections explored: console.error is written at most MaxErrors times.
MaxErrors == 1
\* Time the sessions run for, in milliseconds.
MaxElapsedMs == 700
\* Collectibles spawned by direct calls of spawnCollectible.
MaxSpawns == 1
\* Largest speed, speed limit, modifier and frame time quantified over.
MaxMagnitude == 12
\* Largest coordinate of the two entities tested for collision.
MaxCoordinate == 3
\* Largest half width and half height assigned to their sprites.
MaxHalfSize == 1
\* Most slots of a collectibles array handed to the collision pass.
MaxPassLength == 3
\* Distance below the bottom edge up to which a falling collectible is
\* given time to be removed.
MaxOffscreen == 16
\* Collectibles already falling when the fall is taken up.
MaxFalling == 2

(***************************************************************************)
(* Game.setup's constants, on the fixed-point grid.                        *)
(***************************************************************************)
PlayerSize == 16
CollectibleSize == 8
CollectibleDy == 8
AccelerationModifierX == 16
AccelerationModifierY == 8
DecelerationModifierX == 2
DecelerationModifierY == 2
MaxSpeedX == 6
MaxSpeedY == 8
SpawnInterval == 1

VARIABLES
    sceneIndex,     \* Sketch.sceneIndex
    activeScene,    \* Sketch.activeScene: a scene name, or "undefined"
    phase,          \* p5 lifecycle: "constructed", "preloaded", "running"
    frameCount,     \* p.frameCount: frames drawn so far
    crashed,        \* an exception left a p5 callback uncaught
    hookLog,        \* every preload / setup hook invoked so far, in order
    dispatched,     \* draw / key hooks the latest callback invoked
    outcome,        \* how the latest activation promise settled
    consoleErrors,  \* number of console.error lines written
    canvas,         \* p.width, p.height
    score,          \* Game._score
    spawnTimer,     \* Game.spawnTimer
    collectibles,   \* Game.collectibles (a slot is a collectible or a hole)
    player,         \* Game.player
    hudText,        \* Game.hudText: value text and position.x
    sessions,       \* spawn timers of Game sessions run side by side, each
                    \* at a frame time of its own, with the time elapsed
    frameTime,      \* p.deltaTime of a run whose frames all take the same
                    \* time (0 in the runs whose frame times vary)
    pair,           \* two entities of any position, with their sprites
    returned,       \* what the latest didCollide call returned
    tested          \* indices the latest collision pass run on its own
                    \* called its callback with, in order

vars == <<sceneIndex, activeScene, phase, frameCount, crashed, hookLog,
          dispatched, outcome, consoleErrors, canvas, score,
          spawnTimer, collectibles, player, hudText, sessions, frameTime,
          pair, returned, tested>>

sketchVars == <<sceneIndex, activeScene, outcome, consoleErrors>>
gameVars == <<score, spawnTimer, collectibles, player, hudText>>
scenarioVars == <<sessions, frameTime, pair, returned, tested>>

(***************************************************************************)
(* Scenes and their handlers.                                              *)
(***************************************************************************)
\* Sketch.constructor: this.scenes = [new Menu(this), new Game(this)].
scenes == <<"Menu", "Game">>

\* The methods each scene class defines.
Handlers(scene) ==
    CASE scene = "Menu" -> {"setup", "draw", "keyPressed"}
      [] scene = "Game" -> {"preload", "setup", "draw", "keyPressed",
                            "keyReleased"}
      [] OTHER -> {}

\* Scene.hasPreloadHandler and its siblings: scene && name in scene && ...
HasHandler(scene, hook) ==
    scene # "undefined" /\ hook \in Handlers(scene)

(***************************************************************************)
(* Sketch.activateScene and Sketch.advanceScene.                           *)
(***************************************************************************)
\* A promise settles once: resolve or reject after that changes nothing.
Settle(state, how) == IF state = "pending" THEN how ELSE state

\* The range check of activateScene.
OutOfRange(index) ==
    Len(scenes) = 0 \/ index < 0 \/ index >= Len(scenes)

\* this.scenes[index]: undefined outside the array.
SceneAt(index) ==
    IF index \in 0..(Len(scenes) - 1) THEN scenes[index + 1] ELSE "undefined"

\* Seeded fault: an activateScene that always installs the first scene.
ActivateSceneFirstOnly(index) ==
    [sceneIndex |-> index,
     activeScene |-> SceneAt(0),
     outcome |-> IF OutOfRange(index) THEN "rejected" ELSE "resolved"]

\* Seeded fault: an activateScene that stores every index and installs the
\* first scene for an index outside the array.
ActivateSceneFallback(index) ==
    [sceneIndex |-> index,
     activeScene |-> IF OutOfRange(index) THEN SceneAt(0) ELSE SceneAt(index),
     outcome |-> IF OutOfRange(index) THEN "rejected" ELSE "resolved"]

\* activateScene(index): the executor runs synchronously.  reject() does not
\* leave the executor, so the two assignments and resolve() run in both cases.
ActivateScene(index) ==
    LET afterCheck == IF OutOfRange(index)
                      THEN Settle("pending", "rejected")
                      ELSE "pending"
    IN [sceneIndex |-> index,
        activeScene |-> SceneAt(index),
        outcome |-> Settle(afterCheck, "resolved")]

\* Seeded fault: an advanceScene that skips a scene.
AdvanceSceneByTwo == ActivateScene(sceneIndex + 2)

\* Seeded fault: an advanceScene that steps back.
AdvanceSceneBackward == ActivateScene(sceneIndex - 1)

\* advanceScene(): activateScene(this.sceneIndex + 1).
AdvanceScene == ActivateScene(sceneIndex + 1)

\* advanceScene() called with this.sceneIndex = from.
AdvanceSceneFrom(from) == ActivateScene(from + 1)

\* .catch((reason) => console.error(reason)): the handler of both callers.
\* It runs as a microtask, before the next p5 callback.
CatchAndLog(result) ==
    IF result.outcome = "rejected" THEN consoleErrors + 1 ELSE consoleErrors

(***************************************************************************)
(* Sprite, Entity, MovingEntity.                                           *)
(***************************************************************************)
\* Sprite.size setter: centerPoint = size / 2 on both axes.
CenterPoint(size) == size \div 2

\* Seeded fault: a size setter that leaves centerPoint as it was.
SetSizeKeepCenter(sprite, newSize) ==
    [sprite EXCEPT !.size = newSize]

\* Sprite.size setter, on a sprite: _size and centerPoint are assigned in
\* one call, which no callback interleaves.
SetSize(sprite, newSize) ==
    [size |-> newSize,
     centerPoint |-> [x |-> CenterPoint(newSize.x),
                      y |-> CenterPoint(newSize.y)]]

\* new Sprite({ width, height }): this.size = { x: width, y: height }.
NewSprite(width, height) ==
    SetSize([size |-> [x |-> 0, y |-> 0],
             centerPoint |-> [x |-> 0, y |-> 0]],
            [x |-> width, y |-> height])

\* new Entity({ x, y, sprite }).
NewEntity(x, y, sprite) == [x |-> x, y |-> y, sprite |-> sprite]

PlayerCenter == CenterPoint(PlayerSize)
CollectibleCenter == CenterPoint(CollectibleSize)

\* Entity.didCollide(target): bounds position +/- centerPoint overlap or
\* touch on both axes.  c and tc are the two sprites' centre points.
DidCollide(e, c, target, tc) ==
    /\ e.x + c >= target.x - tc
    /\ e.x - c <= target.x + tc
    /\ e.y + c >= target.y - tc
    /\ e.y - c <= target.y + tc

\* Seeded fault: a didCollide that does not count touching bounds.
EntityDidCollideStrict(self, target) ==
    /\ self.x + self.sprite.centerPoint.x
          > target.x - target.sprite.centerPoint.x
    /\ self.x - self.sprite.centerPoint.x
          < target.x + target.sprite.centerPoint.x
    /\ self.y + self.sprite.centerPoint.y
          > target.y - target.sprite.centerPoint.y
    /\ self.y - self.sprite.centerPoint.y
          < target.y + target.sprite.centerPoint.y

\* Entity.didCollide(target), on entities with sprites of any size.
EntityDidCollide(self, target) ==
    /\ self.x + self.sprite.centerPoint.x
          >= target.x - target.sprite.centerPoint.x
    /\ self.x - self.sprite.centerPoint.x
          <= target.x + target.sprite.centerPoint.x
    /\ self.y + self.sprite.centerPoint.y
          >= target.y - target.sprite.centerPoint.y
    /\ self.y - self.sprite.centerPoint.y
          <= target.y + target.sprite.centerPoint.y

\* calcAxisPosition: currentPosition + p.deltaTime * velocity.
CalcAxisPosition(dt, position, velocity) == position + dt * velocity

(***************************************************************************)
(* Player.                                                                 *)
(***************************************************************************)
\* Quotient rounded toward zero (b > 0).
TruncDiv(a, b) == IF a >= 0 THEN a \div b ELSE -((-a) \div b)

\* Seeded fault: a calcAxisVelocity that subtracts the deceleration.
CalcAxisVelocityLinearDrag(dt, currentAxisVelocity, axisAcceleration, axisDecel) ==
    currentAxisVelocity + dt * axisAcceleration - dt * axisDecel

\* Seeded fault: a calcAxisVelocity that returns small velocities as they
\* are.
CalcAxisVelocityNoSnap(dt, currentAxisVelocity, axisAcceleration, axisDecel) ==
    LET v1 == currentAxisVelocity + dt * axisAcceleration
    IN TruncDiv(v1 * (Scale - dt * axisDecel), Scale)

\* Player.calcAxisVelocity.
CalcAxisVelocity(dt, currentAxisVelocity, axisAcceleration, axisDecel) ==
    LET v1 == currentAxisVelocity + dt * axisAcceleration
        v2 == TruncDiv(v1 * (Scale - dt * axisDecel), Scale)
    IN IF (v2 > 0 /\ v2 < axisDecel) \/ (v2 < 0 /\ v2 > -axisDecel)
       THEN 0
       ELSE v2

\* Seeded fault: a speed limit that bounds the positive direction alone.
ClampSpeedUpperOnly(v, maxSpeed) ==
    IF v > maxSpeed THEN maxSpeed ELSE v

\* The speed limit of updateTrajectory, one axis.
ClampSpeed(v, maxSpeed) ==
    IF v < -maxSpeed THEN -maxSpeed
    ELSE IF v > maxSpeed THEN maxSpeed
    ELSE v

\* Seeded fault: a hitbox limit that bounds the near edge alone.
ClampPositionLowerOnly(pos, center, extent) ==
    IF pos < center THEN center ELSE pos

\* The hitbox limit of updatePosition, one axis.
ClampPosition(pos, center, extent) ==
    IF pos < center THEN center
    ELSE IF pos > extent - center THEN extent - center
    ELSE pos

\* new Player() followed by the assignments of Game.setup and
\* resetPosition(p).
NewPlayer(height) ==
    [x |-> PlayerCenter, y |-> height - PlayerCenter,
     vx |-> 0, vy |-> 0, ax |-> 0, ay |-> 0,
     left |-> FALSE, right |-> FALSE, isJumping |-> FALSE,
     isRising |-> FALSE, isFalling |-> FALSE]

\* Game.player before Game.setup has run (the field is not yet assigned).
NoPlayer ==
    [x |-> 0, y |-> 0, vx |-> 0, vy |-> 0, ax |-> 0, ay |-> 0,
     left |-> FALSE, right |-> FALSE, isJumping |-> FALSE,
     isRising |-> FALSE, isFalling |-> FALSE]

\* Seeded fault: an updateTrajectory that starts rising whenever the jump
\* key is held, falling or not.
UpdateTrajectoryJumpWhileFalling(pl, dt, height) ==
    LET ax0 == IF pl.left THEN -AccelerationModifierX ELSE 0
        ax == IF pl.right THEN AccelerationModifierX ELSE ax0
        rising1 == pl.isRising \/ pl.isJumping
        climbing == rising1 /\ pl.vy > -MaxSpeedY
        topped == rising1 /\ ~(pl.vy > -MaxSpeedY)
        airborne == ~rising1 /\ pl.isFalling
                    /\ pl.y < height - PlayerCenter
        landed == ~rising1 /\ pl.isFalling
                  /\ ~(pl.y < height - PlayerCenter)
        ay == IF climbing THEN -AccelerationModifierY
              ELSE IF airborne THEN DecelerationModifierY
              ELSE 0
        rising2 == IF topped THEN FALSE ELSE rising1
        falling2 == IF topped THEN TRUE
                    ELSE IF landed THEN FALSE
                    ELSE pl.isFalling
        vx == CalcAxisVelocity(dt, pl.vx, ax, DecelerationModifierX)
        vy == CalcAxisVelocity(dt, pl.vy, ay, DecelerationModifierY)
    IN [pl EXCEPT !.ax = ax, !.ay = ay,
                  !.isRising = rising2, !.isFalling = falling2,
                  !.vx = ClampSpeed(vx, MaxSpeedX),
                  !.vy = ClampSpeed(vy, MaxSpeedY)]

\* Seeded fault: an updateTrajectory that tests the right arrow before the
\* left one, so that left wins when both are held.
UpdateTrajectoryLeftWins(pl, dt, height) ==
    LET ax0 == IF pl.right THEN AccelerationModifierX ELSE 0
        ax == IF pl.left THEN -AccelerationModifierX ELSE ax0
        rising1 == pl.isRising \/ (pl.isJumping /\ ~pl.isFalling)
        climbing == rising1 /\ pl.vy > -MaxSpeedY
        topped == rising1 /\ ~(pl.vy > -MaxSpeedY)
        airborne == ~rising1 /\ pl.isFalling
                    /\ pl.y < height - PlayerCenter
        landed == ~rising1 /\ pl.isFalling
                  /\ ~(pl.y < height - PlayerCenter)
        ay == IF climbing THEN -AccelerationModifierY
              ELSE IF airborne THEN DecelerationModifierY
              ELSE 0
        rising2 == IF topped THEN FALSE ELSE rising1
        falling2 == IF topped THEN TRUE
                    ELSE IF landed THEN FALSE
                    ELSE pl.isFalling
        vx == CalcAxisVelocity(dt, pl.vx, ax, DecelerationModifierX)
        vy == CalcAxisVelocity(dt, pl.vy, ay, DecelerationModifierY)
    IN [pl EXCEPT !.ax = ax, !.ay = ay,
                  !.isRising = rising2, !.isFalling = falling2,
                  !.vx = ClampSpeed(vx, MaxSpeedX),
                  !.vy = ClampSpeed(vy, MaxSpeedY)]

\* Seeded fault: an updateTrajectory that keeps climbing at the speed cap
\* and ends the rise only beyond it.
UpdateTrajectoryPastCap(pl, dt, height) ==
    LET ax0 == IF pl.left THEN -AccelerationModifierX ELSE 0
        ax == IF pl.right THEN AccelerationModifierX ELSE ax0
        rising1 == pl.isRising \/ (pl.isJumping /\ ~pl.isFalling)
        climbing == rising1 /\ pl.vy >= -MaxSpeedY
        topped == rising1 /\ ~(pl.vy >= -MaxSpeedY)
        airborne == ~rising1 /\ pl.isFalling
                    /\ pl.y < height - PlayerCenter
        landed == ~rising1 /\ pl.isFalling
                  /\ ~(pl.y < height - PlayerCenter)
        ay == IF climbing THEN -AccelerationModifierY
              ELSE IF airborne THEN DecelerationModifierY
              ELSE 0
        rising2 == IF topped THEN FALSE ELSE rising1
        falling2 == IF topped THEN TRUE
                    ELSE IF landed THEN FALSE
                    ELSE pl.isFalling
        vx == CalcAxisVelocity(dt, pl.vx, ax, DecelerationModifierX)
        vy == CalcAxisVelocity(dt, pl.vy, ay, DecelerationModifierY)
    IN [pl EXCEPT !.ax = ax, !.ay = ay,
                  !.isRising = rising2, !.isFalling = falling2,
                  !.vx = ClampSpeed(vx, MaxSpeedX),
                  !.vy = ClampSpeed(vy, MaxSpeedY)]

\* Seeded fault: an updateTrajectory for which the ground line itself is
\* still above the ground.
UpdateTrajectoryGroundIsAir(pl, dt, height) ==
    LET ax0 == IF pl.left THEN -AccelerationModifierX ELSE 0
        ax == IF pl.right THEN AccelerationModifierX ELSE ax0
        rising1 == pl.isRising \/ (pl.isJumping /\ ~pl.isFalling)
        climbing == rising1 /\ pl.vy > -MaxSpeedY
        topped == rising1 /\ ~(pl.vy > -MaxSpeedY)
        airborne == ~rising1 /\ pl.isFalling
                    /\ pl.y <= height - PlayerCenter
        landed == ~rising1 /\ pl.isFalling
                  /\ ~(pl.y <= height - PlayerCenter)
        ay == IF climbing THEN -AccelerationModifierY
              ELSE IF airborne THEN DecelerationModifierY
              ELSE 0
        rising2 == IF topped THEN FALSE ELSE rising1
        falling2 == IF topped THEN TRUE
                    ELSE IF landed THEN FALSE
                    ELSE pl.isFalling
        vx == CalcAxisVelocity(dt, pl.vx, ax, DecelerationModifierX)
        vy == CalcAxisVelocity(dt, pl.vy, ay, DecelerationModifierY)
    IN [pl EXCEPT !.ax = ax, !.ay = ay,
                  !.isRising = rising2, !.isFalling = falling2,
                  !.vx = ClampSpeed(vx, MaxSpeedX),
                  !.vy = ClampSpeed(vy, MaxSpeedY)]

\* Seeded fault: an updateTrajectory whose rise lasts only while the jump
\* key is held.
UpdateTrajectoryJumpHeld(pl, dt, height) ==
    LET ax0 == IF pl.left THEN -AccelerationModifierX ELSE 0
        ax == IF pl.right THEN AccelerationModifierX ELSE ax0
        rising1 == pl.isJumping /\ (pl.isRising \/ ~pl.isFalling)
        climbing == rising1 /\ pl.vy > -MaxSpeedY
        topped == rising1 /\ ~(pl.vy > -MaxSpeedY)
        airborne == ~rising1 /\ pl.isFalling
                    /\ pl.y < height - PlayerCenter
        landed == ~rising1 /\ pl.isFalling
                  /\ ~(pl.y < height - PlayerCenter)
        ay == IF climbing THEN -AccelerationModifierY
              ELSE IF airborne THEN DecelerationModifierY
              ELSE 0
        rising2 == IF topped THEN FALSE ELSE rising1
        falling2 == IF topped THEN TRUE
                    ELSE IF landed THEN FALSE
                    ELSE pl.isFalling
        vx == CalcAxisVelocity(dt, pl.vx, ax, DecelerationModifierX)
        vy == CalcAxisVelocity(dt, pl.vy, ay, DecelerationModifierY)
    IN [pl EXCEPT !.ax = ax, !.ay = ay,
                  !.isRising = rising2, !.isFalling = falling2,
                  !.vx = ClampSpeed(vx, MaxSpeedX),
                  !.vy = ClampSpeed(vy, MaxSpeedY)]

\* Player.updateTrajectory.
UpdateTrajectory(pl, dt, height) ==
    LET ax0 == IF pl.left THEN -AccelerationModifierX ELSE 0
        ax == IF pl.right THEN AccelerationModifierX ELSE ax0
        rising1 == pl.isRising \/ (pl.isJumping /\ ~pl.isFalling)
        climbing == rising1 /\ pl.vy > -MaxSpeedY
        topped == rising1 /\ ~(pl.vy > -MaxSpeedY)
        airborne == ~rising1 /\ pl.isFalling
                    /\ pl.y < height - PlayerCenter
        landed == ~rising1 /\ pl.isFalling
                  /\ ~(pl.y < height - PlayerCenter)
        ay == IF climbing THEN -AccelerationModifierY
              ELSE IF airborne THEN DecelerationModifierY
              ELSE 0
        rising2 == IF topped THEN FALSE ELSE rising1
        falling2 == IF topped THEN TRUE
                    ELSE IF landed THEN FALSE
                    ELSE pl.isFalling
        vx == CalcAxisVelocity(dt, pl.vx, ax, DecelerationModifierX)
        vy == CalcAxisVelocity(dt, pl.vy, ay, DecelerationModifierY)
    IN [pl EXCEPT !.ax = ax, !.ay = ay,
                  !.isRising = rising2, !.isFalling = falling2,
                  !.vx = ClampSpeed(vx, MaxSpeedX),
                  !.vy = ClampSpeed(vy, MaxSpeedY)]

\* Player.updatePosition.
UpdatePosition(pl, dt, width, height) ==
    [pl EXCEPT
        !.x = ClampPosition(CalcAxisPosition(dt, pl.x, pl.vx),
                            PlayerCenter, width),
        !.y = ClampPosition(CalcAxisPosition(dt, pl.y, pl.vy),
                            PlayerCenter, height)]

\* Player.update: trajectory, then position.
PlayerUpdate(pl, dt, width, height) ==
    UpdatePosition(UpdateTrajectory(pl, dt, height), dt, width, height)

(***************************************************************************)
(* Game scene.                                                             *)
(***************************************************************************)
\* A slot of the collectibles array after `delete arr[i]`.
Hole == [hole |-> TRUE, x |-> 0, y |-> 0, dy |-> 0]

\* Slots forEach visits (it skips holes).
LiveSlots(colls) == {i \in 1..Len(colls) : ~colls[i].hole}

\* Seeded fault: a score setter without the ceiling guard.
SetScoreUnguarded(current, value) == value

\* The score setter: ignored once _score has reached the ceiling.  Before
\* Game.setup _score is undefined, and undefined >= 999999 is false, as is
\* 0 >= ScoreCeiling for the 0 that stands for it here.
SetScore(current, value) ==
    IF current >= ScoreCeiling THEN current ELSE value

\* Frame times p.deltaTime takes, in ticks.
DeltaTimes == {0, 1}

\* Math.random() takes the values r / RandomSteps, r in RandomDraws.
RandomDraws == {0, 1}
RandomSteps == Cardinality(RandomDraws)

\* Seeded fault: a spawnCollectible that ignores the sprite's half width.
SpawnCollectibleNoMargin(r, width) ==
    [hole |-> FALSE,
     x |-> TruncDiv(r * width, RandomSteps),
     y |-> -CollectibleCenter,
     dy |-> CollectibleDy]

\* Game.spawnCollectible: Math.random() = r / RandomSteps.
SpawnCollectible(r, width) ==
    [hole |-> FALSE,
     x |-> CollectibleCenter
           + TruncDiv(r * (width - 2 * CollectibleCenter), RandomSteps),
     y |-> -CollectibleCenter,
     dy |-> CollectibleDy]

\* Seeded fault: a spawn timer that fires only below zero.
UpdateSpawnTimerBelowZero(timer, colls, dt, r, width) ==
    IF timer < 0
    THEN [timer |-> SpawnInterval,
          colls |-> Append(colls, SpawnCollectible(r, width))]
    ELSE [timer |-> timer - dt, colls |-> colls]

\* Seeded fault: a spawn timer that charges the frame's time to the new
\* interval as it spawns.
UpdateSpawnTimerCarryOver(timer, colls, dt, r, width) ==
    IF timer <= 0
    THEN [timer |-> SpawnInterval - dt,
          colls |-> Append(colls, SpawnCollectible(r, width))]
    ELSE [timer |-> timer - dt, colls |-> colls]

\* Game.updateSpawnTimer, for a spawnInterval of interval time units.
UpdateSpawnTimerWith(interval, timer, colls, dt, r, width) ==
    IF timer <= 0
    THEN [timer |-> interval,
          colls |-> Append(colls, SpawnCollectible(r, width))]
    ELSE [timer |-> timer - dt, colls |-> colls]

\* Game.updateSpawnTimer.
UpdateSpawnTimer(timer, colls, dt, r, width) ==
    UpdateSpawnTimerWith(SpawnInterval, timer, colls, dt, r, width)

\* Seeded fault: a Collectible.update that integrates upward.
CollectibleUpdateUpward(c, dt) ==
    [c EXCEPT !.y = CalcAxisPosition(dt, c.y, -c.dy)]

\* Collectible.update: position.y alone moves.
CollectibleUpdate(c, dt) ==
    [c EXCEPT !.y = CalcAxisPosition(dt, c.y, c.dy)]

\* this.entities.forEach(update), the collectibles' part.
UpdateCollectibles(colls, dt) ==
    [i \in 1..Len(colls) |->
        IF colls[i].hole THEN colls[i] ELSE CollectibleUpdate(colls[i], dt)]

\* The slots before slot i, a slot at or after i removed, close up.
Splice(colls, i) ==
    [j \in 1..(Len(colls) - 1) |-> IF j < i THEN colls[j] ELSE colls[j + 1]]

\* Seeded fault: a traversal that removes with arr.splice(i, 1), so that
\* the slots behind a removed one move up under the running index.
RECURSIVE TraverseCollisionsSplicing(_, _, _, _)
TraverseCollisionsSplicing(colls, pl, sc, i) ==
    IF i > Len(colls)
    THEN [colls |-> colls, score |-> sc, tested |-> <<>>]
    ELSE IF colls[i].hole
         THEN TraverseCollisionsSplicing(colls, pl, sc, i + 1)
         ELSE LET hit == DidCollide(colls[i], CollectibleCenter,
                                    pl, PlayerCenter)
                  rest == IF hit
                          THEN TraverseCollisionsSplicing(
                                   Splice(colls, i), pl,
                                   SetScore(sc, sc + 1), i + 1)
                          ELSE TraverseCollisionsSplicing(colls, pl, sc,
                                                          i + 1)
              IN [rest EXCEPT !.tested = <<i>> \o @]

\* Seeded fault: a collision pass that counts a hit and leaves the
\* collectible in the array.
RECURSIVE TraverseCollisionsScoreOnly(_, _, _, _)
TraverseCollisionsScoreOnly(colls, pl, sc, i) ==
    IF i > Len(colls)
    THEN [colls |-> colls, score |-> sc, tested |-> <<>>]
    ELSE IF colls[i].hole
         THEN TraverseCollisionsScoreOnly(colls, pl, sc, i + 1)
         ELSE LET hit == DidCollide(colls[i], CollectibleCenter,
                                    pl, PlayerCenter)
                  rest == IF hit
                          THEN TraverseCollisionsScoreOnly(
                                   colls, pl, SetScore(sc, sc + 1), i + 1)
                          ELSE TraverseCollisionsScoreOnly(colls, pl, sc,
                                                           i + 1)
              IN [rest EXCEPT !.tested = <<i>> \o @]

\* The traversal of the collision pass, from slot i on: forEach visits the
\* slots in index order and skips the holes; the callback calls didCollide
\* on the slot's collectible and deletes the slot on a hit.  tested lists
\* the indices the callback was called with, in order.
RECURSIVE TraverseCollisions(_, _, _, _)
TraverseCollisions(colls, pl, sc, i) ==
    IF i > Len(colls)
    THEN [colls |-> colls, score |-> sc, tested |-> <<>>]
    ELSE IF colls[i].hole
         THEN TraverseCollisions(colls, pl, sc, i + 1)
         ELSE LET hit == DidCollide(colls[i], CollectibleCenter,
                                    pl, PlayerCenter)
                  rest == IF hit
                          THEN TraverseCollisions(
                                   [colls EXCEPT ![i] = Hole], pl,
                                   SetScore(sc, sc + 1), i + 1)
                          ELSE TraverseCollisions(colls, pl, sc, i + 1)
              IN [rest EXCEPT !.tested = <<i>> \o @]

\* Seeded fault: a collision pass that stops at the first hit.
RECURSIVE CheckCollisionsFirstHit(_, _, _, _)
CheckCollisionsFirstHit(colls, pl, sc, i) ==
    IF i > Len(colls)
    THEN [colls |-> colls, score |-> sc]
    ELSE IF ~colls[i].hole
            /\ DidCollide(colls[i], CollectibleCenter, pl, PlayerCenter)
         THEN [colls |-> [colls EXCEPT ![i] = Hole],
               score |-> SetScore(sc, sc + 1)]
         ELSE CheckCollisionsFirstHit(colls, pl, sc, i + 1)

\* The collision pass, from slot i on: what it leaves of the collectibles
\* and the score.
CheckCollisions(colls, pl, sc, i) ==
    LET pass == TraverseCollisions(colls, pl, sc, i)
    IN [colls |-> pass.colls, score |-> pass.score]

\* Number.prototype.toString of the score, for the HUD.
ScoreText(n) == ToString(n)

\* The drawables getter: the HUD text, the player, the collectibles;
\* forEach passes over the holes.
Drawables(hud, pl, colls) ==
    <<[what |-> "hudText", x |-> hud.x, y |-> 0],
      [what |-> "player", x |-> pl.x, y |-> pl.y]>>
    \o [i \in 1..Len(SelectSeq(colls, LAMBDA c : ~c.hole)) |->
           [what |-> "collectible",
            x |-> SelectSeq(colls, LAMBDA c : ~c.hole)[i].x,
            y |-> SelectSeq(colls, LAMBDA c : ~c.hole)[i].y]]

\* What Game.draw draws, in order: this.drawables.forEach(draw), the last
\* statement of the frame.
DrawnInFrame(dt, r) ==
    LET timed == UpdateSpawnTimer(spawnTimer, collectibles, dt, r,
                                  canvas.width)
        pl == PlayerUpdate(player, dt, canvas.width, canvas.height)
        moved == UpdateCollectibles(timed.colls, dt)
        hit == CheckCollisions(moved, pl, score, 1)
        hud == [value |-> ScoreText(hit.score), x |-> canvas.width]
    IN Drawables(hud, pl, hit.colls)

\* Seeded fault: a Game.draw that updates the entities before it steps the
\* spawn timer.
GameDrawUpdateBeforeSpawn(dt, r) ==
    LET pl == PlayerUpdate(player, dt, canvas.width, canvas.height)
        moved == UpdateCollectibles(collectibles, dt)
        timed == UpdateSpawnTimer(spawnTimer, moved, dt, r, canvas.width)
        hit == CheckCollisions(timed.colls, pl, score, 1)
    IN /\ spawnTimer' = timed.timer
       /\ player' = pl
       /\ collectibles' = hit.colls
       /\ score' = hit.score
       /\ hudText' = [value |-> ScoreText(hit.score), x |-> canvas.width]

\* Game.draw, with p.deltaTime = dt and Math.random() = r / RandomSteps.
GameDraw(dt, r) ==
    LET timed == UpdateSpawnTimer(spawnTimer, collectibles, dt, r,
                                  canvas.width)
        pl == PlayerUpdate(player, dt, canvas.width, canvas.height)
        moved == UpdateCollectibles(timed.colls, dt)
        hit == CheckCollisions(moved, pl, score, 1)
    IN /\ spawnTimer' = timed.timer
       /\ player' = pl
       /\ collectibles' = hit.colls
       /\ score' = hit.score
       /\ hudText' = [value |-> ScoreText(hit.score), x |-> canvas.width]

\* Game.setup.
GameSetup(height) ==
    /\ hudText' = [value |-> "", x |-> 0]
    /\ collectibles' = <<>>
    /\ player' = NewPlayer(height)
    /\ spawnTimer' = 0
    /\ score' = SetScore(score, 0)

\* Game.keyPressed.
GameKeyPressed(ev) ==
    IF ev.key = " " THEN [player EXCEPT !.isJumping = TRUE]
    ELSE IF ev.keyCode = "LEFT_ARROW" THEN [player EXCEPT !.left = TRUE]
    ELSE IF ev.keyCode = "RIGHT_ARROW" THEN [player EXCEPT !.right = TRUE]
    ELSE player

\* Game.keyReleased.
GameKeyReleased(ev) ==
    IF ev.key = " " THEN [player EXCEPT !.isJumping = FALSE]
    ELSE IF ev.keyCode = "LEFT_ARROW" THEN [player EXCEPT !.left = FALSE]
    ELSE IF ev.keyCode = "RIGHT_ARROW" THEN [player EXCEPT !.right = FALSE]
    ELSE player

(***************************************************************************)
(* The p5 callbacks bound in Sketch.constructor.                           *)
(***************************************************************************)
Range(seq) == {seq[i] : i \in 1..Len(seq)}

\* Frame times, random draws, window sizes and key events of the driver.
WindowSizes ==
    {[width |-> 24, height |-> 24], [width |-> 32, height |-> 32]}
KeyEvents ==
    {[key |-> " ", keyCode |-> "SPACE"],
     [key |-> "ArrowLeft", keyCode |-> "LEFT_ARROW"],
     [key |-> "ArrowRight", keyCode |-> "RIGHT_ARROW"],
     [key |-> "Enter", keyCode |-> "RETURN"]}


\* Sketch.preload: every scene with a preload handler, in array order.
PreloadTargets == SelectSeq(scenes, LAMBDA s : HasHandler(s, "preload"))

\* Seeded fault: setup dispatched to the active scene alone.
SetupTargetsActiveOnly ==
    IF HasHandler(activeScene, "setup") THEN <<activeScene>> ELSE <<>>

\* Sketch.setup: every scene with a setup handler, in array order.
SetupTargets == SelectSeq(scenes, LAMBDA s : HasHandler(s, "setup"))

\* Seeded fault: frames dispatched to every scene with a draw handler.
DrawTargetsEveryScene ==
    SelectSeq(scenes, LAMBDA s : HasHandler(s, "draw"))

\* Sketch.draw: this.activeScene.draw(p), with no handler check.  With
\* activeScene undefined the call is a TypeError and reaches no scene.
DrawTargets == IF activeScene = "undefined" THEN <<>> ELSE <<activeScene>>

\* Seeded fault: key presses dispatched to every scene with the handler.
KeyPressedTargetsAllScenes ==
    SelectSeq(scenes, LAMBDA s : HasHandler(s, "keyPressed"))

\* Seeded fault: key presses dispatched to the first scene, active or not.
KeyPressedTargetsFirstScene ==
    IF HasHandler(SceneAt(0), "keyPressed") THEN <<SceneAt(0)>> ELSE <<>>

\* Sketch.keyPressed: the active scene, when it has the handler.
KeyPressedTargets ==
    IF HasHandler(activeScene, "keyPressed") THEN <<activeScene>> ELSE <<>>

\* Seeded fault: key releases dispatched without the handler check.
KeyReleasedTargetsUnchecked ==
    IF activeScene = "undefined" THEN <<>> ELSE <<activeScene>>

\* Sketch.keyReleased: the active scene, when it has the handler.
KeyReleasedTargets ==
    IF HasHandler(activeScene, "keyReleased") THEN <<activeScene>> ELSE <<>>

Invoked(targets, hook) == [i \in 1..Len(targets) |-> <<hook, targets[i]>>]

\* Seeded fault: a Menu.keyPressed that advances on every key.
MenuKeyPressedAnyKey(ev) ==
    LET result == AdvanceScene
    IN /\ sceneIndex' = result.sceneIndex
       /\ activeScene' = result.activeScene
       /\ outcome' = result.outcome
       /\ consoleErrors' = CatchAndLog(result)

\* Menu.keyPressed: RETURN advances the scene; the rejection is logged.
MenuKeyPressed(ev) ==
    IF ev.keyCode = "RETURN"
    THEN LET result == AdvanceScene
         IN /\ sceneIndex' = result.sceneIndex
            /\ activeScene' = result.activeScene
            /\ outcome' = result.outcome
            /\ consoleErrors' = CatchAndLog(result)
    ELSE UNCHANGED sketchVars

\* p.preload.  Game.preload loads the background image.
Preload ==
    /\ phase = "constructed"
    /\ phase' = "preloaded"
    /\ hookLog' = hookLog \o Invoked(PreloadTargets, "preload")
    /\ dispatched' = <<>>
    /\ UNCHANGED <<frameCount, crashed, canvas>>
    /\ UNCHANGED sketchVars
    /\ UNCHANGED gameVars
    /\ UNCHANGED scenarioVars

\* p.setup: createCanvas(windowWidth, windowHeight), then every setup
\* handler.  Menu.setup builds the title.
Setup ==
    /\ phase = "preloaded"
    /\ phase' = "running"
    /\ \E window \in WindowSizes :
          /\ canvas' = window
          /\ IF "Game" \in Range(SetupTargets)
             THEN GameSetup(window.height)
             ELSE UNCHANGED gameVars
    /\ hookLog' = hookLog \o Invoked(SetupTargets, "setup")
    /\ dispatched' = <<>>
    /\ UNCHANGED <<frameCount, crashed>>
    /\ UNCHANGED sketchVars
    /\ UNCHANGED scenarioVars

\* p.draw: one frame.  Menu.draw paints the background and the title.  An
\* exception thrown out of the callback ends p5's frame loop.
DrawFrame(dt, r) ==
    /\ phase = "running"
    /\ ~crashed
    /\ frameCount < MaxFrames
    /\ frameCount' = frameCount + 1
    /\ IF "Game" \in Range(DrawTargets)
       THEN GameDraw(dt, r)
       ELSE UNCHANGED gameVars
    /\ crashed' = (activeScene = "undefined")
    /\ dispatched' = Invoked(DrawTargets, "draw")
    /\ UNCHANGED <<phase, hookLog, canvas>>
    /\ UNCHANGED sketchVars
    /\ UNCHANGED scenarioVars

\* p.keyPressed.
KeyPressedEvent(ev) ==
    /\ phase = "running"
    /\ IF "Menu" \in Range(KeyPressedTargets)
       THEN MenuKeyPressed(ev)
       ELSE UNCHANGED sketchVars
    /\ player' = IF "Game" \in Range(KeyPressedTargets)
                 THEN GameKeyPressed(ev)
                 ELSE player
    /\ dispatched' = Invoked(KeyPressedTargets, "keyPressed")
    /\ UNCHANGED <<phase, frameCount, crashed, hookLog, canvas>>
    /\ UNCHANGED <<score, spawnTimer, collectibles, hudText>>
    /\ UNCHANGED scenarioVars

\* p.keyReleased.
KeyReleasedEvent(ev) ==
    /\ phase = "running"
    /\ player' = IF "Game" \in Range(KeyReleasedTargets)
                 THEN GameKeyReleased(ev)
                 ELSE player
    /\ dispatched' = Invoked(KeyReleasedTargets, "keyReleased")
    /\ UNCHANGED <<phase, frameCount, crashed, hookLog, canvas>>
    /\ UNCHANGED <<score, spawnTimer, collectibles, hudText>>
    /\ UNCHANGED sketchVars
    /\ UNCHANGED scenarioVars

Draw == \E dt \in DeltaTimes, r \in RandomDraws : DrawFrame(dt, r)
KeyPressed == \E ev \in KeyEvents : KeyPressedEvent(ev)
KeyReleased == \E ev \in KeyEvents : KeyReleasedEvent(ev)

\* p.windowResized: resizeCanvas(windowWidth, windowHeight).
WindowResized ==
    /\ phase = "running"
    /\ \E window \in WindowSizes : canvas' = window
    /\ dispatched' = <<>>
    /\ UNCHANGED <<phase, frameCount, crashed, hookLog>>
    /\ UNCHANGED sketchVars
    /\ UNCHANGED gameVars
    /\ UNCHANGED scenarioVars

(***************************************************************************)
(* Calls of the Sketch's public methods by any holder of the sketch, with  *)
(* the rejection handler the program's two callers use.                    *)
(***************************************************************************)
Activation(result) ==
    /\ result.outcome = "rejected" => consoleErrors < MaxErrors
    /\ sceneIndex' = result.sceneIndex
    /\ activeScene' = result.activeScene
    /\ outcome' = result.outcome
    /\ consoleErrors' = CatchAndLog(result)
    /\ dispatched' = <<>>
    /\ UNCHANGED <<phase, frameCount, crashed, hookLog, canvas>>
    /\ UNCHANGED gameVars
    /\ UNCHANGED scenarioVars

ActivateSceneWith(index) == Activation(ActivateScene(index))

ActivateSceneCall == \E index \in (-1)..MaxIndex : ActivateSceneWith(index)

AdvanceSceneCall ==
    /\ sceneIndex + 1 <= MaxIndex
    /\ Activation(AdvanceScene)

(***************************************************************************)
(* Game sessions at a constant frame time, in milliseconds: the spawn      *)
(* timer of Game.draw with no collision, started as Game.setup leaves it.  *)
(***************************************************************************)
\* spawnInterval, in milliseconds.
SpawnIntervalMs == 600

\* Constant frame times of the sessions, in milliseconds.
FrameTimesMs == {8, 16, 20}

SessionIds == {"a", "b"}

\* Game.setup: spawnTimer = 0, collectibles = [].
NewSession(dt) ==
    [dt |-> dt, timer |-> 0, colls |-> <<>>, elapsed |-> 0, frames |-> 0]

\* No session is running.
NoSessions == [id \in SessionIds |-> NewSession(0)]

\* One frame of a session: this.updateSpawnTimer(p) with p.deltaTime = dt.
SessionStep(run) ==
    LET timed == UpdateSpawnTimerWith(SpawnIntervalMs, run.timer, run.colls,
                                      run.dt, 0, 0)
    IN [run EXCEPT !.timer = timed.timer,
                   !.colls = timed.colls,
                   !.elapsed = run.elapsed + run.dt,
                   !.frames = run.frames + 1]

SessionFrame(id) ==
    /\ sessions[id].elapsed + sessions[id].dt <= MaxElapsedMs
    /\ sessions' = [sessions EXCEPT ![id] = SessionStep(sessions[id])]
    /\ UNCHANGED <<phase, frameCount, crashed, hookLog, dispatched, canvas>>
    /\ UNCHANGED sketchVars
    /\ UNCHANGED gameVars
    /\ UNCHANGED <<frameTime, pair, returned, tested>>

(***************************************************************************)
(* The Game scene's entities on their own: the player's update at a        *)
(* constant frame time, and spawnCollectible.                              *)
(***************************************************************************)
\* Constant frame times, in ticks.
PlayerFrameTimes == {0, 1, 2}

\* Window sizes, windows smaller than the sprites among them.
AnyWindowSizes ==
    {[width |-> 4, height |-> 4], [width |-> 24, height |-> 24],
     [width |-> 32, height |-> 40]}

\* Player states of any position, velocity, key state and jump phase.
AnyPlayers ==
    [x : {0, 40}, y : {0, 40}, vx : {-12, 0, 12}, vy : {-12, 0, 12},
     ax : {0}, ay : {0}, left : BOOLEAN, right : BOOLEAN,
     isJumping : BOOLEAN, isRising : BOOLEAN, isFalling : BOOLEAN]

\* Game.draw's entity pass for the player: this.player.update(p), with
\* p.deltaTime = frameTime.
PlayerFrame ==
    /\ phase = "running"
    /\ activeScene = "Game"
    /\ player' = PlayerUpdate(player, frameTime, canvas.width, canvas.height)
    /\ UNCHANGED <<phase, frameCount, crashed, hookLog, dispatched, canvas>>
    /\ UNCHANGED <<score, spawnTimer, collectibles, hudText>>
    /\ UNCHANGED sketchVars
    /\ UNCHANGED scenarioVars

\* this.spawnCollectible(p), with Math.random() = r / RandomSteps.
SpawnCollectibleCall(r) ==
    /\ phase = "running"
    /\ activeScene = "Game"
    /\ Len(collectibles) < MaxSpawns
    /\ collectibles' = Append(collectibles, SpawnCollectible(r, canvas.width))
    /\ UNCHANGED <<phase, frameCount, crashed, hookLog, dispatched, canvas>>
    /\ UNCHANGED <<score, spawnTimer, player, hudText>>
    /\ UNCHANGED sketchVars
    /\ UNCHANGED scenarioVars

SpawnCall == \E r \in RandomDraws : SpawnCollectibleCall(r)

(***************************************************************************)
(* Two entities on their own: sizes are assigned to their sprites and each *)
(* is tested for collision with the other.                                 *)
(***************************************************************************)
EntityIds == {"a", "b"}

\* Positions of the two entities.
Coordinates == 0..MaxCoordinate

\* Sizes assigned to a sprite: twice a half size, on each axis.
SpriteSizes ==
    [x : {2 * h : h \in 0..MaxHalfSize}, y : {2 * h : h \in 0..MaxHalfSize}]

\* No pair is under test.
NoPair == [id \in EntityIds |-> NewEntity(0, 0, NewSprite(0, 0))]

\* entity.sprite.size = newSize.
SetSpriteSize(id, newSize) ==
    /\ pair' = [pair EXCEPT ![id].sprite = SetSize(pair[id].sprite, newSize)]
    /\ UNCHANGED returned
    /\ UNCHANGED <<phase, frameCount, crashed, hookLog, dispatched, canvas>>
    /\ UNCHANGED sketchVars
    /\ UNCHANGED gameVars
    /\ UNCHANGED <<sessions, frameTime, tested>>

\* self.didCollide(target).
DidCollideCall(self, target) ==
    /\ returned' = EntityDidCollide(pair[self], pair[target])
    /\ UNCHANGED pair
    /\ UNCHANGED <<phase, frameCount, crashed, hookLog, dispatched, canvas>>
    /\ UNCHANGED sketchVars
    /\ UNCHANGED gameVars
    /\ UNCHANGED <<sessions, frameTime, tested>>

SizeAssignment ==
    \E id \in EntityIds, newSize \in SpriteSizes : SetSpriteSize(id, newSize)

CollisionTest ==
    \E self, target \in EntityIds : DidCollideCall(self, target)

(***************************************************************************)
(* The collision pass of Game.draw on its own, on any collectibles array.  *)
(***************************************************************************)
\* Heights of the collectibles handed to the pass: above the player,
\* overlapping it, and touching its top edge in the higher window.
PassHeights == {0, 8, 12}

\* The slots of such an array: holes and collectibles.
PassSlots ==
    {Hole} \cup {[hole |-> FALSE, x |-> CollectibleCenter, y |-> h,
                  dy |-> CollectibleDy] : h \in PassHeights}

\* The arrays of up to n slots.
RECURSIVE PassArrays(_)
PassArrays(n) ==
    IF n = 0 THEN {<<>>}
    ELSE LET shorter == PassArrays(n - 1)
         IN shorter \cup {Append(a, c) : a \in shorter, c \in PassSlots}

\* this.collectibles.forEach(...) of Game.draw.
CollisionPass ==
    /\ phase = "running"
    /\ activeScene = "Game"
    /\ LET pass == TraverseCollisions(collectibles, player, score, 1)
       IN /\ collectibles' = pass.colls
          /\ score' = pass.score
          /\ tested' = pass.tested
    /\ UNCHANGED <<phase, frameCount, crashed, hookLog, dispatched, canvas>>
    /\ UNCHANGED <<spawnTimer, player, hudText>>
    /\ UNCHANGED sketchVars
    /\ UNCHANGED <<sessions, frameTime, pair, returned>>

(***************************************************************************)
(* The Game scene taken up with collectibles about to leave the canvas.    *)
(***************************************************************************)
\* Heights of such a collectible in a canvas of the given height: resting
\* on the bottom edge, just below it, and a frame's fall further down.
FallHeights(height) ==
    {height - CollectibleCenter, height + CollectibleCenter,
     height + CollectibleCenter + CollectibleDy}

\* The collectibles at those heights, in the leftmost spawn column.
FallingCollectibles(height) ==
    {[hole |-> FALSE, x |-> CollectibleCenter, y |-> h,
      dy |-> CollectibleDy] : h \in FallHeights(height)}

\* The arrays of up to n of them.
RECURSIVE FallingArrays(_, _)
FallingArrays(n, height) ==
    IF n = 0 THEN {<<>>}
    ELSE LET shorter == FallingArrays(n - 1, height)
         IN shorter \cup {Append(a, c) : a \in shorter,
                                         c \in FallingCollectibles(height)}

(***************************************************************************)
(* Specifications.                                                         *)
(***************************************************************************)
\* The state Sketch.constructor leaves: the scenes built, scene 0 activated.
Init ==
    /\ sceneIndex = ActivateScene(0).sceneIndex
    /\ activeScene = ActivateScene(0).activeScene
    /\ outcome = ActivateScene(0).outcome
    /\ consoleErrors = IF ActivateScene(0).outcome = "rejected" THEN 1 ELSE 0
    /\ phase = "constructed"
    /\ crashed = FALSE
    /\ hookLog = <<>>
    /\ frameCount = 0
    /\ dispatched = <<>>
    /\ canvas = [width |-> 0, height |-> 0]
    /\ score = 0
    /\ spawnTimer = 0
    /\ collectibles = <<>>
    /\ player = NoPlayer
    /\ hudText = [value |-> "", x |-> 0]
    /\ sessions = NoSessions
    /\ frameTime = 0
    /\ pair = NoPair
    /\ returned = FALSE
    /\ tested = <<>>

\* The running program: p5 drives the callbacks.
Next ==
    \/ Preload
    \/ Setup
    \/ Draw
    \/ KeyPressed
    \/ KeyReleased
    \/ WindowResized

Spec == Init /\ [][Next]_vars

\* The Sketch as a component: its public methods are called as well (in a
\* window that keeps its size).
NextApi ==
    \/ Preload
    \/ Setup
    \/ Draw
    \/ KeyPressed
    \/ KeyReleased
    \/ ActivateSceneCall
    \/ AdvanceSceneCall

SpecApi == Init /\ [][NextApi]_vars

\* Two sessions with different frame times, from Game.setup on.
InitSessions ==
    /\ sceneIndex = ActivateScene(0).sceneIndex
    /\ activeScene = ActivateScene(0).activeScene
    /\ outcome = ActivateScene(0).outcome
    /\ consoleErrors = 0
    /\ phase = "constructed"
    /\ crashed = FALSE
    /\ hookLog = <<>>
    /\ frameCount = 0
    /\ dispatched = <<>>
    /\ canvas = [width |-> 0, height |-> 0]
    /\ score = 0
    /\ spawnTimer = 0
    /\ collectibles = <<>>
    /\ player = NoPlayer
    /\ hudText = [value |-> "", x |-> 0]
    /\ frameTime = 0
    /\ pair = NoPair
    /\ returned = FALSE
    /\ tested = <<>>
    /\ \E da, db \in FrameTimesMs :
          /\ da < db
          /\ sessions = [id \in SessionIds |->
                            NewSession(IF id = "a" THEN da ELSE db)]

NextSessions ==
    \/ SessionFrame("a")
    \/ SessionFrame("b")

SpecSessions == InitSessions /\ [][NextSessions]_vars

\* The sketch with the Game scene active, as startup and RETURN leave it.
GameActive ==
    /\ sceneIndex = AdvanceSceneFrom(0).sceneIndex
    /\ activeScene = AdvanceSceneFrom(0).activeScene
    /\ outcome = AdvanceSceneFrom(0).outcome
    /\ consoleErrors = 0
    /\ phase = "running"
    /\ crashed = FALSE
    /\ hookLog = Invoked(<<"Game">>, "preload")
                     \o Invoked(<<"Menu", "Game">>, "setup")
    /\ frameCount = 0
    /\ dispatched = <<<<"keyPressed", "Menu">>>>
    /\ score = 0
    /\ spawnTimer = 0
    /\ collectibles = <<>>
    /\ hudText = [value |-> "", x |-> 0]
    /\ sessions = NoSessions
    /\ pair = NoPair
    /\ returned = FALSE
    /\ tested = <<>>

\* The player from Game.setup on, under key events and frames of a constant
\* frame time.
InitPlayer ==
    /\ GameActive
    /\ canvas \in WindowSizes
    /\ player = NewPlayer(canvas.height)
    /\ frameTime \in PlayerFrameTimes

NextPlayer ==
    \/ PlayerFrame
    \/ KeyPressed
    \/ KeyReleased

SpecPlayer == InitPlayer /\ [][NextPlayer]_vars

\* The entities from any state: any player, any window.
InitEntities ==
    /\ GameActive
    /\ canvas \in AnyWindowSizes
    /\ player \in AnyPlayers
    /\ frameTime \in PlayerFrameTimes

NextEntities ==
    \/ PlayerFrame
    \/ SpawnCall

SpecEntities == InitEntities /\ [][NextEntities]_vars

\* Two entities constructed at any positions with default sprites, then
\* size assignments and collision tests.
InitPair ==
    /\ sceneIndex = ActivateScene(0).sceneIndex
    /\ activeScene = ActivateScene(0).activeScene
    /\ outcome = ActivateScene(0).outcome
    /\ consoleErrors = 0
    /\ phase = "constructed"
    /\ crashed = FALSE
    /\ hookLog = <<>>
    /\ frameCount = 0
    /\ dispatched = <<>>
    /\ canvas = [width |-> 0, height |-> 0]
    /\ score = 0
    /\ spawnTimer = 0
    /\ collectibles = <<>>
    /\ player = NoPlayer
    /\ hudText = [value |-> "", x |-> 0]
    /\ sessions = NoSessions
    /\ frameTime = 0
    /\ returned = FALSE
    /\ tested = <<>>
    /\ \E xa, ya, xb, yb \in Coordinates :
          pair = [id \in EntityIds |->
                     IF id = "a" THEN NewEntity(xa, ya, NewSprite(0, 0))
                                 ELSE NewEntity(xb, yb, NewSprite(0, 0))]

NextPair ==
    \/ SizeAssignment
    \/ CollisionTest

SpecPair == InitPair /\ [][NextPair]_vars

\* The Game scene with any collectibles array and any score, the player
\* where Game.setup puts it.
InitPass ==
    /\ sceneIndex = AdvanceSceneFrom(0).sceneIndex
    /\ activeScene = AdvanceSceneFrom(0).activeScene
    /\ outcome = AdvanceSceneFrom(0).outcome
    /\ consoleErrors = 0
    /\ phase = "running"
    /\ crashed = FALSE
    /\ hookLog = Invoked(<<"Game">>, "preload")
                     \o Invoked(<<"Menu", "Game">>, "setup")
    /\ frameCount = 0
    /\ dispatched = <<<<"keyPressed", "Menu">>>>
    /\ spawnTimer = 0
    /\ hudText = [value |-> "", x |-> 0]
    /\ sessions = NoSessions
    /\ frameTime = 0
    /\ pair = NoPair
    /\ returned = FALSE
    /\ tested = <<>>
    /\ canvas \in WindowSizes
    /\ player = NewPlayer(canvas.height)
    /\ score \in 0..ScoreCeiling
    /\ collectibles \in PassArrays(MaxPassLength)

NextPass == CollisionPass

SpecPass == InitPass /\ [][NextPass]_vars

\* The Game scene with collectibles at the bottom edge and the player on
\* the ground, at the left or the right end of the canvas, with the right
\* arrow and the jump key held or not.
InitFall ==
    /\ sceneIndex = AdvanceSceneFrom(0).sceneIndex
    /\ activeScene = AdvanceSceneFrom(0).activeScene
    /\ outcome = AdvanceSceneFrom(0).outcome
    /\ consoleErrors = 0
    /\ phase = "running"
    /\ crashed = FALSE
    /\ hookLog = Invoked(<<"Game">>, "preload")
                     \o Invoked(<<"Menu", "Game">>, "setup")
    /\ frameCount = 0
    /\ dispatched = <<<<"keyPressed", "Menu">>>>
    /\ score = 0
    /\ spawnTimer = SpawnInterval
    /\ hudText = [value |-> "", x |-> 0]
    /\ sessions = NoSessions
    /\ frameTime = 0
    /\ pair = NoPair
    /\ returned = FALSE
    /\ tested = <<>>
    /\ canvas \in WindowSizes
    /\ \E x \in {PlayerCenter, canvas.width - PlayerCenter},
          held, jump \in BOOLEAN :
          player = [NewPlayer(canvas.height) EXCEPT
                       !.x = x, !.right = held, !.isJumping = jump]
    /\ collectibles \in FallingArrays(MaxFalling, canvas.height)

NextFall == Draw

SpecFall == InitFall /\ [][NextFall]_vars

(***************************************************************************)
(* The player under key events and frames whose time varies from frame to  *)
(* frame, long frames among them (p.deltaTime after a stall).              *)
(***************************************************************************)
\* Frame times, in ticks; at the longest dt * decelerationModifier.y > 1.
VaryingFrameTimes == {0, 1, 2, 7}

\* this.player.update(p), with p.deltaTime = dt.
PlayerFrameOf(dt) ==
    /\ phase = "running"
    /\ activeScene = "Game"
    /\ player' = PlayerUpdate(player, dt, canvas.width, canvas.height)
    /\ frameTime' = dt
    /\ UNCHANGED <<phase, frameCount, crashed, hookLog, dispatched, canvas>>
    /\ UNCHANGED <<score, spawnTimer, collectibles, hudText>>
    /\ UNCHANGED sketchVars
    /\ UNCHANGED <<sessions, pair, returned, tested>>

VaryingFrame == \E dt \in VaryingFrameTimes : PlayerFrameOf(dt)

InitJump ==
    /\ GameActive
    /\ canvas \in WindowSizes
    /\ player = NewPlayer(canvas.height)
    /\ frameTime = 0

NextJump ==
    \/ VaryingFrame
    \/ KeyPressed
    \/ KeyReleased

SpecJump == InitJump /\ [][NextJump]_vars

(***************************************************************************)
(* Properties.                                                             *)
(***************************************************************************)
Return == [key |-> "Enter", keyCode |-> "RETURN"]
Indices == (-1)..MaxIndex
NumRemoved == Cardinality({i \in 1..Len(collectibles) : collectibles[i].hole})

\* C1: activateScene with an out-of-range index fails and leaves sceneIndex
\* and activeScene as they were before the call.
C1_OutOfRangeLeavesStateUnchanged ==
    [][\A index \in Indices :
          (OutOfRange(index) /\ ActivateSceneWith(index))
          => /\ outcome' = "rejected"
             /\ sceneIndex' = sceneIndex
             /\ activeScene' = activeScene]_vars

\* C2: an out-of-range activateScene ends rejected, never resolved, the
\* caller logs the rejection, and no later frame throws: the frame loop
\* keeps running.
C2_RejectionLoggedAndFramesContinue ==
    [][/\ \A index \in Indices :
             (OutOfRange(index) /\ ActivateSceneWith(index))
             => /\ outcome' = "rejected"
                /\ consoleErrors' = consoleErrors + 1
       /\ Draw => ~crashed']_vars

\* C3: activateScene(i) with 0 <= i < scenes.length resolves, and afterwards
\* sceneIndex = i and activeScene = scenes[i].
C3_ValidActivationSucceeds ==
    [][\A index \in Indices :
          (index >= 0 /\ index < Len(scenes) /\ ActivateSceneWith(index))
          => /\ outcome' = "resolved"
             /\ consoleErrors' = consoleErrors
             /\ sceneIndex' = index
             /\ activeScene' = scenes[index + 1]]_vars

\* A valid activation has acted after a rejected one: back on the menu.
C3_Witness ==
    /\ consoleErrors = 1
    /\ outcome = "resolved"
    /\ sceneIndex = 0
    /\ activeScene = "Menu"

\* C4: every frame, key press and key release invokes the matching hook of
\* the active scene alone, when that scene has it (Menu has no keyReleased),
\* and no hook of another scene.
C4_DispatchToActiveSceneOnly ==
    [][/\ Draw => dispatched' = <<<<"draw", activeScene>>>>
       /\ KeyPressed => dispatched' = <<<<"keyPressed", activeScene>>>>
       /\ KeyReleased =>
             dispatched' = IF activeScene = "Game"
                           THEN <<<<"keyReleased", "Game">>>>
                           ELSE <<>>]_vars

\* A key release reached the Game scene after frames were drawn.
C4_Witness ==
    /\ dispatched = <<<<"keyReleased", "Game">>>>
    /\ frameCount > 0

\* C5: startup invokes Game.preload, then Menu.setup and Game.setup, each
\* once and in that order, before any frame or key hook; nothing invokes a
\* preload or setup hook afterwards.
C5_StartupHooksOnceInOrder ==
    /\ phase = "constructed" => hookLog = <<>>
    /\ phase = "preloaded" => hookLog = <<<<"preload", "Game">>>>
    /\ phase = "running" =>
          hookLog = <<<<"preload", "Game">>, <<"setup", "Menu">>,
                      <<"setup", "Game">>>>
    /\ phase # "running" => (frameCount = 0 /\ dispatched = <<>>)

\* Frames have been drawn in the Game scene, after the activation.
C5_Witness ==
    /\ phase = "running"
    /\ activeScene = "Game"
    /\ frameCount = MaxFrames
    /\ Len(hookLog) = 3

\* C6: in the running program 0 <= sceneIndex < scenes.length and exactly
\* one scene, scenes[sceneIndex], is active.
C6_ActiveIndexInRange ==
    /\ sceneIndex \in 0..(Len(scenes) - 1)
    /\ activeScene = scenes[sceneIndex + 1]
    /\ Cardinality({i \in 1..Len(scenes) : scenes[i] = activeScene}) = 1

\* The Game scene is active in a resized window.
C6_Witness ==
    /\ sceneIndex = 1
    /\ frameCount > 0
    /\ canvas.width # hudText.x
    /\ hudText.x > 0

\* C7: advanceScene is activateScene(sceneIndex + 1); on the last scene it
\* is rejected and leaves sceneIndex and activeScene unchanged.
C7_AdvancePastLastSceneChangesNothing ==
    [][AdvanceSceneCall =>
          /\ ActivateSceneWith(sceneIndex + 1)
          /\ sceneIndex = Len(scenes) - 1 =>
                /\ outcome' = "rejected"
                /\ sceneIndex' = sceneIndex
                /\ activeScene' = activeScene]_vars

\* C8: in the running program the active scene index never decreases.
C8_ForwardOnly == [][sceneIndex' >= sceneIndex]_vars

\* The scene has advanced.
C8_Witness == sceneIndex = 1 /\ activeScene = "Game" /\ frameCount = 0

\* C9: while the Menu scene is active a RETURN key press makes the Game scene
\* (index 1) active; every other key press, every key release and every
\* frame leaves the active scene unchanged.
C9_ReturnStartsGame ==
    [][activeScene = "Menu" =>
          /\ KeyPressedEvent(Return) =>
                (activeScene' = "Game" /\ sceneIndex' = 1)
          /\ \A ev \in KeyEvents \ {Return} :
                KeyPressedEvent(ev) =>
                    (activeScene' = "Menu" /\ sceneIndex' = sceneIndex)
          /\ (KeyReleased \/ Draw \/ WindowResized) =>
                (activeScene' = "Menu" /\ sceneIndex' = sceneIndex)]_vars

\* RETURN was pressed on the menu after frames and other keys.
C9_Witness ==
    /\ activeScene = "Game"
    /\ frameCount > 0
    /\ dispatched = <<<<"keyPressed", "Menu">>>>

\* C10: after Game.setup the score is in 0..ceiling, never decreases, and
\* stays at the ceiling once there: removing more collectibles than the
\* ceiling leaves it at exactly the ceiling.
C10_ScoreSaturates ==
    /\ [](phase = "running" =>
             /\ score \in 0..ScoreCeiling
             /\ NumRemoved >= ScoreCeiling => score = ScoreCeiling)
    /\ [][phase = "running" => score' >= score]_vars
    /\ [][score = ScoreCeiling => score' = ScoreCeiling]_vars

\* More collectibles were collected than the ceiling counts.
C10_Witness == score = ScoreCeiling /\ NumRemoved > ScoreCeiling

Min(a, b) == IF a < b THEN a ELSE b

\* The collectibles of a frame after spawn and update, before the collision
\* pass, and the slots among them that overlap the updated player.
MovedInFrame(dt, r) ==
    UpdateCollectibles(
        UpdateSpawnTimer(spawnTimer, collectibles, dt, r, canvas.width).colls,
        dt)
CollidingInFrame(dt, r) ==
    LET moved == MovedInFrame(dt, r)
        pl == PlayerUpdate(player, dt, canvas.width, canvas.height)
    IN {i \in 1..Len(moved) :
           /\ ~moved[i].hole
           /\ moved[i].x + CollectibleCenter >= pl.x - PlayerCenter
           /\ moved[i].x - CollectibleCenter <= pl.x + PlayerCenter
           /\ moved[i].y + CollectibleCenter >= pl.y - PlayerCenter
           /\ moved[i].y - CollectibleCenter <= pl.y + PlayerCenter}

C12_SpawnTimerStep ==
    [][\A dt \in DeltaTimes, r \in RandomDraws :
          (activeScene = "Game" /\ DrawFrame(dt, r)) =>
             IF spawnTimer <= 0
             THEN /\ spawnTimer' = SpawnInterval
                  /\ Len(collectibles') = Len(collectibles) + 1
             ELSE /\ spawnTimer' = spawnTimer - dt
                  /\ Len(collectibles') = Len(collectibles)]_vars

\* The timer ran down to zero after the first spawn.
C12_Witness ==
    /\ spawnTimer = 0
    /\ Len(collectibles) = 1
    /\ frameCount = 2

Spawned(id) == Len(sessions[id].colls)

\* C13: in a session at a constant 16 ms per frame the first frame spawns
\* exactly one collectible, and once 600 ms of frame time have accumulated
\* after it exactly one more has spawned: two in total.
C13_SecondSpawnAfterInterval ==
    \A id \in SessionIds :
       sessions[id].dt = 16 =>
          /\ sessions[id].frames = 1 => Spawned(id) = 1
          /\ sessions[id].frames >= 1 => Spawned(id) >= 1
          /\ sessions[id].elapsed - sessions[id].dt >= SpawnIntervalMs =>
                Spawned(id) = 2

\* C14: two sessions started from the same state and run at different
\* frame times have spawned the same number of collectibles whenever the
\* same time has elapsed in both.
C14_SpawnCountDependsOnElapsedTimeOnly ==
    sessions["a"].elapsed = sessions["b"].elapsed =>
       Spawned("a") = Spawned("b")

\* C15 as stated: every collectible is created at y = -halfHeight with x
\* in [halfWidth, canvasWidth - halfWidth], for every random draw and every
\* canvas width.
C15_SpawnInsideAnyCanvas ==
    \A i \in 1..Len(collectibles) :
       /\ collectibles[i].y = -CollectibleCenter
       /\ collectibles[i].x >= CollectibleCenter
       /\ collectibles[i].x <= canvas.width - CollectibleCenter

\* C15, amended: in a canvas at least as wide as the collectible's sprite,
\* every collectible is created at y = -halfHeight with x in
\* [halfWidth, canvasWidth - halfWidth], for every random draw.
C15_SpawnInsideWideCanvas ==
    canvas.width >= CollectibleSize =>
       \A i \in 1..Len(collectibles) :
          /\ collectibles[i].y = -CollectibleCenter
          /\ collectibles[i].x >= CollectibleCenter
          /\ collectibles[i].x <= canvas.width - CollectibleCenter

\* A collectible was created off the left edge's minimum, in a wide canvas.
C15_Witness ==
    /\ Len(collectibles) = 1
    /\ canvas.width = 32
    /\ collectibles[1].x > CollectibleCenter

\* The resting line of the player.
Ground == canvas.height - PlayerCenter

\* The player after the next frame.
NextPlayerState ==
    PlayerUpdate(player, frameTime, canvas.width, canvas.height)

\* C16: at any constant frame time dt > 0 a jump runs through rising and
\* falling back to grounded on the resting line.  So until the player is
\* grounded again every frame advances the cycle (a rising or falling
\* player that a frame leaves as it was stays so for ever), and a fall
\* ends only on the resting line.
C16_JumpCycleCompletes ==
    frameTime > 0 =>
       /\ (player.isRising \/ player.isFalling) => NextPlayerState # player
       /\ (player.isFalling /\ ~NextPlayerState.isFalling
             /\ ~NextPlayerState.isRising) => NextPlayerState.y = Ground

\* C17: in every state the player reaches from its construction under key
\* events and updates, at most one of isRising and isFalling is true.
C17_RisingExcludesFalling == ~(player.isRising /\ player.isFalling)

\* The player falls with the jump key still held.
C17_Witness ==
    /\ player.isFalling
    /\ player.isJumping
    /\ player.y < Ground

Abs(n) == IF n < 0 THEN -n ELSE n

\* C18: after every Player.update, from any prior velocity and key state
\* and at any dt >= 0, |velocity.x| <= maxSpeed.x and |velocity.y| <=
\* maxSpeed.y; the closing speed limit holds any velocity within any
\* maxSpeed >= 0.
C18_SpeedWithinMaxSpeed ==
    /\ Abs(NextPlayerState.vx) <= MaxSpeedX
    /\ Abs(NextPlayerState.vy) <= MaxSpeedY
    /\ \A v \in (-MaxMagnitude)..MaxMagnitude, m \in 0..MaxMagnitude :
          Abs(ClampSpeed(v, m)) <= m

\* An update accelerated the player to the speed limit.
C18_Witness ==
    /\ player.ax = AccelerationModifierX
    /\ player.vx = MaxSpeedX
    /\ player.vy = -MaxSpeedY

\* A player at rest: no key held, no jump phase, no velocity.
AtRest(pl) ==
    /\ ~pl.left /\ ~pl.right /\ ~pl.isJumping
    /\ ~pl.isRising /\ ~pl.isFalling
    /\ pl.vx = 0 /\ pl.vy = 0

C20_PlayerInsideAnyCanvas ==
    /\ NextPlayerState.x >= PlayerCenter
    /\ NextPlayerState.x <= canvas.width - PlayerCenter
    /\ NextPlayerState.y >= PlayerCenter
    /\ NextPlayerState.y <= canvas.height - PlayerCenter

\* C20, amended: after every Player.update from any prior state, in a
\* canvas at least as wide and as high as the player's sprite, position.x
\* is in [centerPoint.x, width - centerPoint.x] and position.y in
\* [centerPoint.y, height - centerPoint.y].
C20_PlayerInsideLargeCanvas ==
    (canvas.width >= PlayerSize /\ canvas.height >= PlayerSize) =>
       /\ NextPlayerState.x >= PlayerCenter
       /\ NextPlayerState.x <= canvas.width - PlayerCenter
       /\ NextPlayerState.y >= PlayerCenter
       /\ NextPlayerState.y <= canvas.height - PlayerCenter

\* An update stopped the moving player at the right and top edges.
C20_Witness ==
    /\ player.ax = AccelerationModifierX
    /\ player.vx > 0
    /\ player.x = canvas.width - PlayerCenter
    /\ player.vy < 0
    /\ player.y = PlayerCenter

\* The pixels an entity's bounds cover on one axis.
BoundsX(e) == (e.x - e.sprite.centerPoint.x)..(e.x + e.sprite.centerPoint.x)
BoundsY(e) == (e.y - e.sprite.centerPoint.y)..(e.y + e.sprite.centerPoint.y)

\* C21: didCollide is true iff the two entities' bounds position +/-
\* centerPoint have a point in common on the x axis and one on the y axis
\* (overlapping or touching), and a.didCollide(b) = b.didCollide(a).
C21_DidCollideIsSymmetricBoxTest ==
    [][\A self, target \in EntityIds :
          DidCollideCall(self, target) =>
             /\ returned' = (/\ BoundsX(pair[self]) \cap BoundsX(pair[target]) # {}
                             /\ BoundsY(pair[self]) \cap BoundsY(pair[target]) # {})
             /\ returned' = EntityDidCollide(pair[target], pair[self])]_vars

\* Two entities of different, non-square sizes were found colliding with
\* their bounds touching on the x axis alone.
C21_Witness ==
    /\ returned
    /\ pair["a"].sprite.size # pair["b"].sprite.size
    /\ pair["a"].sprite.size.x # pair["a"].sprite.size.y
    /\ pair["a"].x + pair["a"].sprite.centerPoint.x
          = pair["b"].x - pair["b"].sprite.centerPoint.x
    /\ pair["a"].sprite.centerPoint.x > 0
    /\ pair["b"].sprite.centerPoint.x > 0

\* C22: after construction and after every size assignment the sprite's
\* centerPoint is half of the size assigned last, on both axes, in every
\* state between operations.
C22_CenterPointIsHalfSize ==
    /\ [](\A id \in EntityIds :
             /\ 2 * pair[id].sprite.centerPoint.x = pair[id].sprite.size.x
             /\ 2 * pair[id].sprite.centerPoint.y = pair[id].sprite.size.y)
    /\ [][\A id \in EntityIds, newSize \in SpriteSizes :
             SetSpriteSize(id, newSize) =>
                /\ pair'[id].sprite.size = newSize
                /\ 2 * pair'[id].sprite.centerPoint.x = newSize.x
                /\ 2 * pair'[id].sprite.centerPoint.y = newSize.y]_vars

\* Sizes were assigned to both sprites: a non-square one to the first, the
\* largest to the second.
C22_Witness ==
    /\ pair["a"].sprite.size = [x |-> 2, y |-> 0]
    /\ pair["b"].sprite.size = [x |-> 2 * MaxHalfSize, y |-> 2 * MaxHalfSize]

\* The live slots whose collectible overlaps or touches the player.
Overlapping ==
    {i \in LiveSlots(collectibles) :
        /\ collectibles[i].x + CollectibleCenter >= player.x - PlayerCenter
        /\ collectibles[i].x - CollectibleCenter <= player.x + PlayerCenter
        /\ collectibles[i].y + CollectibleCenter >= player.y - PlayerCenter
        /\ collectibles[i].y - CollectibleCenter <= player.y + PlayerCenter}

\* C23: the collision pass tests every collectible that is in the
\* collection at its start exactly once, whatever it removes on the way,
\* and removes every collectible overlapping the player, and no other.
C23_PassTestsEachOnce ==
    [][CollisionPass =>
          /\ Len(tested') = Cardinality(LiveSlots(collectibles))
          /\ Range(tested') = LiveSlots(collectibles)
          /\ Len(collectibles') = Len(collectibles)
          /\ \A i \in 1..Len(collectibles) :
                collectibles'[i] =
                   IF i \in Overlapping THEN Hole ELSE collectibles[i]]_vars

\* A pass tested three collectibles and removed the first two of them.
C23_Witness ==
    /\ tested = <<1, 2, 3>>
    /\ collectibles[1].hole
    /\ collectibles[2].hole
    /\ ~collectibles[3].hole

\* C24: a collectible that is never collected is removed from the
\* collection once its bounds are entirely below the bottom edge: the
\* collection holds no collectible that has fallen further than
\* MaxOffscreen below the edge.
C24_OffscreenCollectibleRemoved ==
    \A i \in LiveSlots(collectibles) :
       collectibles[i].y - CollectibleCenter - canvas.height <= MaxOffscreen

\* C25: a key event whose hook the active scene does not implement (a key
\* release on the menu) invokes nothing, raises no error and leaves the
\* active scene, its index and all Menu and Game state unchanged; startup
\* passes over the scene without a preload hook in the same way.
C25_MissingHookIsNoOp ==
    [][/\ \A ev \in KeyEvents :
             (~HasHandler(activeScene, "keyReleased") /\ KeyReleasedEvent(ev))
             => /\ dispatched' = <<>>
                /\ ~crashed'
                /\ UNCHANGED <<sketchVars, gameVars>>
                /\ UNCHANGED <<phase, frameCount, hookLog, canvas>>
       /\ \A ev \in KeyEvents :
             (~HasHandler(activeScene, "keyPressed") /\ KeyPressedEvent(ev))
             => /\ dispatched' = <<>>
                /\ ~crashed'
                /\ UNCHANGED <<sketchVars, gameVars>>
       /\ Preload =>
             /\ ~crashed'
             /\ \A i \in 1..Len(hookLog') :
                   HasHandler(hookLog'[i][2], hookLog'[i][1])]_vars

\* Nothing was invoked by the latest event, on the menu, after the frames.
C25_Witness ==
    /\ activeScene = "Menu"
    /\ frameCount = MaxFrames
    /\ dispatched = <<>>
    /\ ~crashed

\* C26: a Game frame steps the spawn timer first, then updates the player
\* and every live collectible once, the one spawned in this frame
\* included, then tests for collisions at the updated positions, then
\* draws what is left as updated; the player's position step uses the
\* velocity of the same frame.
C26_FrameOrder ==
    [][\A dt \in DeltaTimes, r \in RandomDraws :
          (activeScene = "Game" /\ DrawFrame(dt, r)) =>
             LET n == Len(collectibles)
                 spawns == spawnTimer <= 0
                 before(i) == IF i <= n THEN collectibles[i]
                              ELSE SpawnCollectible(r, canvas.width)
                 fallen(i) == before(i).y + dt * before(i).dy
                 touches(i) ==
                    /\ before(i).x + CollectibleCenter
                          >= player'.x - PlayerCenter
                    /\ before(i).x - CollectibleCenter
                          <= player'.x + PlayerCenter
                    /\ fallen(i) + CollectibleCenter
                          >= player'.y - PlayerCenter
                    /\ fallen(i) - CollectibleCenter
                          <= player'.y + PlayerCenter
             IN /\ Len(collectibles') = IF spawns THEN n + 1 ELSE n
                /\ \A i \in 1..Len(collectibles') :
                      IF before(i).hole \/ touches(i)
                      THEN collectibles'[i].hole
                      ELSE /\ ~collectibles'[i].hole
                           /\ collectibles'[i].x = before(i).x
                           /\ collectibles'[i].y = fallen(i)
                /\ player'.vx = UpdateTrajectory(player, dt, canvas.height).vx
                /\ player'.vy = UpdateTrajectory(player, dt, canvas.height).vy
                /\ player'.x = ClampPosition(player.x + dt * player'.vx,
                                             PlayerCenter, canvas.width)
                /\ player'.y = ClampPosition(player.y + dt * player'.vy,
                                             PlayerCenter, canvas.height)
                /\ DrawnInFrame(dt, r)
                      = Drawables(hudText', player', collectibles')]_vars

\* A frame spawned a collectible and moved it, and moved the player with
\* the velocity it had just gained, past a collectible below the canvas.
C26_Witness ==
    /\ Len(collectibles) >= 2
    /\ ~collectibles[Len(collectibles)].hole
    /\ collectibles[Len(collectibles)].y = CollectibleDy - CollectibleCenter
    /\ ~collectibles[1].hole
    /\ collectibles[1].y - CollectibleCenter > canvas.height
    /\ player.vx > 0
    /\ player.x > PlayerCenter
    /\ frameCount >= 2

\* C27: every Player.update sets the horizontal acceleration from the
\* arrows held: left alone gives -accelerationModifier.x, right alone
\* +accelerationModifier.x, neither 0, and both together count as right.
C27_ArrowsToAcceleration ==
    [][PlayerFrame =>
          /\ (player.left /\ ~player.right) =>
                player'.ax = -AccelerationModifierX
          /\ (~player.left /\ player.right) =>
                player'.ax = AccelerationModifierX
          /\ (~player.left /\ ~player.right) => player'.ax = 0
          /\ (player.left /\ player.right) =>
                player'.ax = AccelerationModifierX]_vars

\* An update ran with both arrows held and accelerated to the right.
C27_Witness ==
    /\ player.left
    /\ player.right
    /\ player.ax = AccelerationModifierX
    /\ player.vx > 0

\* C28: the player starts rising only in an update that begins with
\* isJumping true and isFalling false; an update that begins in the falling
\* phase never starts a rise, jump key held or not; an update of a grounded
\* player with isJumping false leaves it grounded; and key events change
\* neither phase flag.
C28_RiseNeedsJumpAndNoFall ==
    [][/\ PlayerFrame =>
             /\ (~player.isRising /\ player'.isRising) =>
                   (player.isJumping /\ ~player.isFalling)
             /\ (player.isFalling /\ ~player.isRising) => ~player'.isRising
             /\ (~player.isJumping /\ ~player.isRising
                   /\ ~player.isFalling) =>
                   (~player'.isRising /\ ~player'.isFalling)
       /\ ~PlayerFrame =>
             /\ player'.isRising = player.isRising
             /\ player'.isFalling = player.isFalling]_vars

\* The jump key is held in the fall, on the way down, and no rise began.
C28_Witness ==
    /\ player.isJumping
    /\ player.isFalling
    /\ ~player.isRising
    /\ player.vy > 0
    /\ player.ay = DecelerationModifierY

\* C29: an update that begins rising with velocity.y > -maxSpeed.y uses
\* the vertical acceleration -accelerationModifier.y and stays rising; an
\* update that begins rising with velocity.y <= -maxSpeed.y switches to
\* falling; and the falling phase is entered by no other step: only by an
\* update that begins at the speed cap, rising or with the jump key held,
\* and ends not rising.
C29_RiseEndsAtSpeedCap ==
    [][/\ PlayerFrame =>
             /\ (player.isRising /\ player.vy > -MaxSpeedY) =>
                   /\ player'.ay = -AccelerationModifierY
                   /\ player'.isRising
                   /\ player'.isFalling = player.isFalling
             /\ (player.isRising /\ player.vy <= -MaxSpeedY) =>
                   /\ ~player'.isRising
                   /\ player'.isFalling
                   /\ player'.ay = 0
       /\ (~player.isFalling /\ player'.isFalling) =>
             /\ PlayerFrame
             /\ player.isRising \/ player.isJumping
             /\ ~player'.isRising
             /\ player.vy <= -MaxSpeedY]_vars

\* The rise has just ended at the speed cap: the player is falling, still
\* moving upward, and the update used no vertical acceleration.
C29_Witness ==
    /\ player.isFalling
    /\ ~player.isRising
    /\ player.vy < 0
    /\ player.ay = 0
    /\ player.y < Ground

\* C30: an update that begins falling above the ground line uses the
\* vertical acceleration +decelerationModifier.y and stays falling; an
\* update that begins falling at or below the ground line ends the fall;
\* the fall ends in no other step; and every update of a grounded player
\* with the jump key up uses the vertical acceleration 0.
C30_FallEndsAtGround ==
    [][/\ PlayerFrame =>
             /\ (player.isFalling /\ player.y < Ground) =>
                   /\ player'.ay = DecelerationModifierY
                   /\ player'.isFalling
                   /\ ~player'.isRising
             /\ (player.isFalling /\ player.y >= Ground) =>
                   /\ ~player'.isFalling
                   /\ ~player'.isRising
                   /\ player'.ay = 0
             /\ (~player.isFalling /\ ~player.isRising
                   /\ ~player.isJumping) =>
                   /\ player'.ay = 0
                   /\ ~player'.isFalling
                   /\ ~player'.isRising
       /\ (player.isFalling /\ ~player'.isFalling) =>
             /\ PlayerFrame
             /\ player.y >= Ground]_vars

\* The fall, under +decelerationModifier.y, has brought the player down to
\* the ground line: the next update ends it.
C30_Witness ==
    /\ player.isFalling
    /\ ~player.isRising
    /\ player.y = Ground
    /\ player.vy > 0
    /\ player.ay = DecelerationModifierY

\* The accelerations updateTrajectory hands to calcAxisVelocity.
AxisAccelerations ==
    {-AccelerationModifierX, -AccelerationModifierY, 0,
     DecelerationModifierY, AccelerationModifierX}

\* C31: calcAxisVelocity computes v1 = (v + dt * acceleration) * (1 - dt *
\* decelerationModifier) and returns 0 when 0 < v1 < decelerationModifier
\* or -decelerationModifier < v1 < 0, otherwise v1; so after any
\* Player.update the velocity on an axis is 0 or of magnitude at least that
\* axis's decelerationModifier.
C31_VelocitySnapsBelowDeceleration ==
    /\ \A v \in {player.vx, player.vy}, a \in AxisAccelerations,
          d \in 1..MaxMagnitude :
          LET v1 == TruncDiv((v + frameTime * a) * (Scale - frameTime * d),
                             Scale)
              result == CalcAxisVelocity(frameTime, v, a, d)
          IN /\ result = IF (0 < v1 /\ v1 < d) \/ (-d < v1 /\ v1 < 0)
                         THEN 0 ELSE v1
             /\ result = 0 \/ Abs(result) >= d
    /\ NextPlayerState.vx = 0
          \/ Abs(NextPlayerState.vx) >= DecelerationModifierX
    /\ NextPlayerState.vy = 0
          \/ Abs(NextPlayerState.vy) >= DecelerationModifierY

\* A fall begins from velocity 0: the frame's velocity, below the
\* deceleration modifier, is returned as 0.
C31_Witness ==
    /\ frameTime > 0
    /\ player.isFalling
    /\ ~player.isRising
    /\ player.ay = DecelerationModifierY
    /\ player.vy = 0
    /\ 0 < TruncDiv(frameTime * player.ay
                       * (Scale - frameTime * DecelerationModifierY), Scale)
    /\ TruncDiv(frameTime * player.ay
                   * (Scale - frameTime * DecelerationModifierY), Scale)
          < DecelerationModifierY

\* C32: Collectible.update changes position.y alone, to position.y + dt *
\* velocity.y: across every frame a collectible that stays live keeps its
\* position.x and its velocity, its y is not limited by the canvas, and
\* with the spawn velocity and dt >= 0 its y never decreases.
C32_CollectibleFallsStraight ==
    [][\A dt \in DeltaTimes, r \in RandomDraws :
          (activeScene = "Game" /\ DrawFrame(dt, r)) =>
             \A i \in 1..Len(collectibles) :
                (~collectibles[i].hole /\ ~collectibles'[i].hole) =>
                   /\ collectibles'[i]
                         = [collectibles[i] EXCEPT
                               !.y = collectibles[i].y
                                        + dt * collectibles[i].dy]
                   /\ collectibles'[i].dy = CollectibleDy
                   /\ collectibles'[i].y >= collectibles[i].y]_vars

\* A collectible that was below the bottom edge has fallen on, further
\* than any limit at the canvas would allow.
C32_Witness ==
    /\ frameCount >= 1
    /\ \E i \in LiveSlots(collectibles) :
          collectibles[i].y
             > canvas.height + CollectibleCenter + CollectibleDy

\* C33: scene activation takes effect synchronously.  When activateScene or
\* advanceScene has returned, the promise is settled and the index and the
\* active scene have been updated together: in every state a frame or key
\* event finds, the active scene is scenes[sceneIndex]; and every hook an
\* event invokes is a hook of the scene that was active when the event
\* arrived, so the first event after an activation goes to the new scene.
C33_ActivationIsSynchronous ==
    /\ [](/\ activeScene = SceneAt(sceneIndex)
          /\ outcome # "pending")
    /\ [][\A i \in 1..Len(dispatched') :
             dispatched'[i][2] = activeScene]_vars

\* After a rejected activation the Game scene was activated, and the key
\* press that followed went to it.
C33_Witness ==
    /\ consoleErrors = 1
    /\ sceneIndex = 1
    /\ activeScene = "Game"
    /\ dispatched = <<<<"keyPressed", "Game">>>>

\* C34: Player.update never modifies isJumping or inputDirection, which
\* change through the Game scene's key events alone; and once the rise has
\* begun, releasing the jump key does not end it: an update that begins
\* rising with velocity.y > -maxSpeed.y ends rising whether the key is
\* held or not, and no key event changes isRising.
C34_JumpIsCommitted ==
    [][/\ PlayerFrame =>
             /\ player'.isJumping = player.isJumping
             /\ player'.left = player.left
             /\ player'.right = player.right
             /\ (player.isRising /\ ~player.isJumping
                   /\ player.vy > -MaxSpeedY) => player'.isRising
       /\ (\/ player'.isJumping # player.isJumping
           \/ player'.left # player.left
           \/ player'.right # player.right) =>
             /\ KeyPressed \/ KeyReleased
             /\ player'.isRising = player.isRising
             /\ player'.isFalling = player.isFalling
             /\ player'.vy = player.vy
             /\ player'.y = player.y]_vars

\* The jump key was released during the rise, and the rise went on: the
\* player is above the ground, rising, with the key up.
C34_Witness ==
    /\ player.isRising
    /\ ~player.isJumping
    /\ player.ay = -AccelerationModifierY
    /\ player.vy < 0
    /\ player.y < Ground

\* C35: while the Menu scene is active no frame and no key event changes
\* the Game scene's state: score, spawn timer, collectibles, HUD text and
\* the player, input flags included, keep the values Game.setup gave them
\* until the Game scene becomes active.
C35_MenuLeavesGameUntouched ==
    /\ []((phase = "running" /\ activeScene = "Menu") =>
             /\ score = 0
             /\ spawnTimer = 0
             /\ collectibles = <<>>
             /\ hudText = [value |-> "", x |-> 0]
             /\ \E window \in WindowSizes :
                   player = NewPlayer(window.height))
    /\ [][(phase = "running" /\ activeScene = "Menu") =>
             UNCHANGED gameVars]_vars

\* Frames were drawn and a key other than RETURN was pressed on the menu.
C35_Witness ==
    /\ activeScene = "Menu"
    /\ frameCount = MaxFrames
    /\ dispatched = <<<<"keyPressed", "Menu">>>>
    /\ ~player.isJumping
    /\ spawnTimer = 0

\* C36: in the running program scene activation never fails.  The only
\* activation is the advance the Menu scene's RETURN handler makes while
\* index 0 is active, so no promise is rejected and nothing is logged; and
\* once the Game scene is active every frame and key event, RETURN
\* included, leaves it active.
C36_ActivationNeverFails ==
    /\ [](consoleErrors = 0 /\ outcome = "resolved")
    /\ [][/\ sketchVars' # sketchVars =>
                /\ sceneIndex = 0
                /\ activeScene = "Menu"
                /\ dispatched' = <<<<"keyPressed", "Menu">>>>
                /\ sceneIndex' = 1
                /\ activeScene' = "Game"
          /\ activeScene = "Game" =>
                /\ UNCHANGED sketchVars
                /\ KeyPressedEvent(Return) =>
                      dispatched' = <<<<"keyPressed", "Game">>>>]_vars

\* RETURN was pressed again with the Game scene active: the press went to
\* the Game scene, set no input flag, and the Game scene is still active.
C36_Witness ==
    /\ activeScene = "Game"
    /\ sceneIndex = 1
    /\ frameCount > 0
    /\ dispatched = <<<<"keyPressed", "Game">>>>
    /\ ~player.isJumping
    /\ ~player.left
    /\ ~player.right

\* C37: with a constant canvas height, after every Player.update that ends
\* with the player grounded (neither isRising nor isFalling) position.y is
\* canvasHeight - centerPoint.y, under any key events and any frame times
\* dt >= 0, varying and long ones included.
C37_GroundedOnGroundLine ==
    (~player.isRising /\ ~player.isFalling) => player.y = Ground

\* C38: a Game frame spawns at most one collectible however long it takes,
\* and a frame that spawns does not decrement the timer but leaves it at
\* the spawn interval: so the frame after a spawning frame, whatever its
\* length, spawns nothing.
C38_NoTwoSpawnsInARow ==
    /\ [](\A dt \in 0..MaxMagnitude, r \in RandomDraws :
             LET first == UpdateSpawnTimer(spawnTimer, collectibles, dt, r,
                                           canvas.width)
                 second == UpdateSpawnTimer(first.timer, first.colls, dt, r,
                                            canvas.width)
             IN /\ Len(first.colls) <= Len(collectibles) + 1
                /\ Len(first.colls) > Len(collectibles) =>
                      /\ first.timer = SpawnInterval
                      /\ Len(second.colls) = Len(first.colls))
    /\ [][/\ Len(collectibles') <= Len(collectibles) + 1
          /\ Len(collectibles') > Len(collectibles) =>
                (spawnTimer <= 0 /\ spawnTimer' = SpawnInterval)
          /\ spawnTimer > 0 =>
                Len(collectibles') = Len(collectibles)]_vars

\* A frame spawned a collectible and the frame after it, a whole interval
\* long, stepped the timer down to 0 and spawned none.
C38_Witness ==
    /\ frameCount >= 2
    /\ spawnTimer = 0
    /\ Len(collectibles) >= 1
    /\ ~collectibles[Len(collectibles)].hole
    /\ collectibles[Len(collectibles)].y < 3 * CollectibleDy
    /\ collectibles[Len(collectibles)].y >= CollectibleDy - CollectibleCenter

\* C39: conservation of collectibles.  After every Game frame the number of
\* collectibles ever spawned (the length of the array, which only push
\* extends) is the number of live ones plus the number removed by
\* collision; a removed collectible stays removed and a live one keeps its
\* slot, so each is removed at most once; and score = min(number removed,
\* ceiling): a collectible that collides with the score at the ceiling is
\* removed and the score stays.
C39_CollectiblesConserved ==
    /\ [](/\ Len(collectibles)
                = Cardinality(LiveSlots(collectibles)) + NumRemoved
          /\ score = Min(NumRemoved, ScoreCeiling))
    /\ [][/\ Len(collectibles') >= Len(collectibles)
          /\ \A i \in 1..Len(collectibles) :
                /\ collectibles[i].hole => collectibles'[i].hole
                /\ ~collectibles'[i].hole =>
                      collectibles'[i].x = collectibles[i].x
          /\ \A dt \in DeltaTimes, r \in RandomDraws :
                (score = ScoreCeiling /\ DrawFrame(dt, r)) =>
                   /\ score' = score
                   /\ \A i \in LiveSlots(collectibles) :
                         DidCollide(CollectibleUpdate(collectibles[i], dt),
                                    CollectibleCenter, player', PlayerCenter)
                         => collectibles'[i].hole]_vars

\* More collectibles were removed than the ceiling counts: the last one
\* collided with the score at the ceiling and was removed all the same.
C39_Witness ==
    /\ score = ScoreCeiling
    /\ NumRemoved > ScoreCeiling
    /\ LiveSlots(collectibles) # {}

====
